---- MODULE Spec2Model ----
(***************************************************************************)
(* CircularBuffer<T> of src/src/circularbuffer.rs as a state machine.      *)
(*                                                                         *)
(* The struct's fields are the variables buffer, size, head, tail, count.  *)
(* Each method is an operator over a record of those fields that returns   *)
(* the fields after the call, the returned value and whether the call      *)
(* panicked; each action applies one method to the current fields.         *)
(* A Vec of length n is a function on 0..n-1, Option<T> is a sequence of   *)
(* length at most one.                                                     *)
(***************************************************************************)
EXTENDS Integers, Sequences, FiniteSets

\* Largest capacity given to new and to resize.
MaxCap == 4
\* Number of distinct element values pushed.
NumVals == 2

Values == 1..NumVals

\* Option<T>
None == <<>>
Some(v) == <<v>>

\* Result<(), String> of resize
Ok == <<"Ok">>
Err == <<"Err">>

VARIABLES
  buffer,    \* Vec<Option<T>>: function on 0..len-1
  size,      \* capacity
  head,      \* next write index
  tail,      \* index of the oldest element
  count,     \* number of elements held
  panicked,  \* the last call panicked: the program is over
  lastOp,    \* name of the last method called
  arg,       \* its argument (0 when it takes none)
  ret,       \* its returned value
  prev,      \* the fields before the last call
  phase,     \* "push" / "pop" while only pushes then pops followed new
  pushed,    \* items pushed in phase "push"
  popped,    \* results of the pops in phase "pop"
  queue,     \* the items pushed and not yet evicted, popped or cleared
  qprev      \* queue before the last call

vars == <<buffer, size, head, tail, count, panicked, lastOp, arg, ret, prev,
          phase, pushed, popped, queue, qprev>>

\* The struct as a record.
Self == [buffer |-> buffer, size |-> size, head |-> head, tail |-> tail,
         count |-> count]

\* vec![None; n]
NoneVec(n) == [i \in 0..(n - 1) |-> None]

\* What a method call leaves: the fields, the returned value, a panic.
Done(s, r) == [s |-> s, ret |-> r, panicked |-> FALSE]
Panic(s) == [s |-> s, ret |-> None, panicked |-> TRUE]

is_full(s) == s.count = s.size

is_empty(s) == s.count = 0

len(s) == s.count

capacity(s) == s.size

\* new without the assert.
NewNoAssert(n) ==
  Done([buffer |-> NoneVec(n), size |-> n, head |-> 0, tail |-> 0,
        count |-> 0], None)

\* new(size): the assert panics on 0.
New(n) ==
  LET s == [buffer |-> NoneVec(n), size |-> n, head |-> 0, tail |-> 0,
            count |-> 0]
  IN IF n > 0 THEN Done(s, None) ELSE Panic([s EXCEPT !.buffer = <<>>])

\* push without the is_full test: count always grows.
PushNoFullTest(s, item) ==
  LET s1 == [s EXCEPT !.count = s.count + 1]
  IN IF s1.head \notin DOMAIN s1.buffer
     THEN Panic(s1)
     ELSE Done([s1 EXCEPT !.buffer[s1.head] = Some(item),
                          !.head = (s1.head + 1) % s1.size], None)

\* push that overwrites when full but leaves tail where it was.
PushNoEvict(s, item) ==
  LET s1 == IF is_full(s) THEN s ELSE [s EXCEPT !.count = s.count + 1]
  IN IF s1.head \notin DOMAIN s1.buffer
     THEN Panic(s1)
     ELSE Done([s1 EXCEPT !.buffer[s1.head] = Some(item),
                          !.head = (s1.head + 1) % s1.size], None)

\* push that never advances head.
PushNoAdvance(s, item) ==
  IF is_full(s) /\ s.size = 0
  THEN Panic(s)
  ELSE LET s1 == IF is_full(s)
                 THEN [s EXCEPT !.tail = (s.tail + 1) % s.size]
                 ELSE [s EXCEPT !.count = s.count + 1]
       IN IF s1.head \notin DOMAIN s1.buffer
          THEN Panic(s1)
          ELSE Done([s1 EXCEPT !.buffer[s1.head] = Some(item)], None)

\* push(item): when full, tail moves on ("% self.size" panics on size 0),
\* else count grows; then buffer[head] is written (a panic when head is out
\* of range) and head moves on.
push(s, item) ==
  IF is_full(s) /\ s.size = 0
  THEN Panic(s)
  ELSE LET s1 == IF is_full(s)
                 THEN [s EXCEPT !.tail = (s.tail + 1) % s.size]
                 ELSE [s EXCEPT !.count = s.count + 1]
       IN IF s1.head \notin DOMAIN s1.buffer
          THEN Panic(s1)
          ELSE Done([s1 EXCEPT !.buffer[s1.head] = Some(item),
                               !.head = (s1.head + 1) % s1.size], None)

\* pop that reads buffer[tail] and leaves it in the slot (no take()).
PopNoTake(s) ==
  IF is_empty(s)
  THEN Done(s, None)
  ELSE IF s.tail \notin DOMAIN s.buffer
       THEN Panic(s)
       ELSE IF s.size = 0
            THEN Panic(s)
            ELSE Done([s EXCEPT !.tail = (s.tail + 1) % s.size,
                                !.count = s.count - 1],
                      s.buffer[s.tail])

\* pop that forgets to decrement count.
PopKeepCount(s) ==
  IF is_empty(s)
  THEN Done(s, None)
  ELSE IF s.tail \notin DOMAIN s.buffer
       THEN Panic(s)
       ELSE LET s1 == [s EXCEPT !.buffer[s.tail] = None]
            IN IF s.size = 0
               THEN Panic(s1)
               ELSE Done([s1 EXCEPT !.tail = (s.tail + 1) % s.size],
                         s.buffer[s.tail])

\* pop(): None on an empty buffer, else buffer[tail].take(), tail moves on,
\* count shrinks.
pop(s) ==
  IF is_empty(s)
  THEN Done(s, None)
  ELSE IF s.tail \notin DOMAIN s.buffer
       THEN Panic(s)
       ELSE LET s1 == [s EXCEPT !.buffer[s.tail] = None]
            IN IF s.size = 0
               THEN Panic(s1)
               ELSE Done([s1 EXCEPT !.tail = (s.tail + 1) % s.size,
                                    !.count = s.count - 1],
                         s.buffer[s.tail])

\* peek that reads slot 0, not slot tail.
PeekFirstSlot(s) ==
  IF is_empty(s)
  THEN Done(s, None)
  ELSE IF 0 \notin DOMAIN s.buffer
       THEN Panic(s)
       ELSE Done(s, s.buffer[0])

\* peek(): buffer[tail].as_ref(), None on an empty buffer.
peek(s) ==
  IF is_empty(s)
  THEN Done(s, None)
  ELSE IF s.tail \notin DOMAIN s.buffer
       THEN Panic(s)
       ELSE Done(s, s.buffer[s.tail])

\* clear that forgets to reset head.
ClearKeepHead(s) ==
  Done([s EXCEPT !.buffer = NoneVec(s.size), !.tail = 0, !.count = 0], None)

\* clear()
clear(s) ==
  Done([s EXCEPT !.buffer = NoneVec(s.size), !.head = 0, !.tail = 0,
                 !.count = 0], None)

\* shrink_to_fit that copies slot i, not slot (tail + i) % size.
ShrinkNoTail(s) ==
  IF s.count < s.size
  THEN Done([s EXCEPT
               !.buffer = [i \in 0..(s.count - 1) |-> s.buffer[i]],
               !.size = s.count, !.head = s.count, !.tail = 0], None)
  ELSE Done(s, None)

\* shrink_to_fit(): only when count < size, the count elements from tail on
\* are moved to a new Vec of length count; size = count, head = count,
\* tail = 0.
shrink_to_fit(s) ==
  IF s.count < s.size
  THEN Done([s EXCEPT
               !.buffer = [i \in 0..(s.count - 1) |->
                             s.buffer[(s.tail + i) % s.size]],
               !.size = s.count, !.head = s.count, !.tail = 0], None)
  ELSE Done(s, None)

\* The old Vec after the loop of resize took its first k elements.
Taken(s, k) ==
  [j \in DOMAIN s.buffer |->
     IF \E i \in 0..(k - 1) : j = (s.tail + i) % s.size
     THEN None ELSE s.buffer[j]]

\* The loop and the assignments of resize, lines 102-110.
ResizeBody(s, new_size) ==
  IF new_size < s.count
  THEN \* new_buffer[new_size] is out of range: the right-hand side has
       \* taken element new_size already.
       Panic([s EXCEPT !.buffer = Taken(s, new_size + 1)])
  ELSE Done([s EXCEPT
               !.buffer = [i \in 0..(new_size - 1) |->
                             IF i < s.count
                             THEN s.buffer[(s.tail + i) % s.size]
                             ELSE None],
               !.size = new_size, !.head = s.count, !.tail = 0], Ok)

\* resize without the test for 0.
ResizeNoZeroTest(s, new_size) == ResizeBody(s, new_size)

\* resize that copies slot i, not slot (tail + i) % size.
ResizeNoTail(s, new_size) ==
  IF new_size = 0
  THEN Done(s, Err)
  ELSE IF new_size < s.count
       THEN Panic(s)
       ELSE Done([s EXCEPT
                    !.buffer = [i \in 0..(new_size - 1) |->
                                  IF i < s.count THEN s.buffer[i] ELSE None],
                    !.size = new_size, !.head = s.count, !.tail = 0], Ok)

\* resize that keeps the oldest new_size elements when new_size < count.
ResizeTruncates(s, new_size) ==
  IF new_size = 0
  THEN Done(s, Err)
  ELSE IF new_size < s.count
       THEN Done([s EXCEPT
                    !.buffer = [i \in 0..(new_size - 1) |->
                                  s.buffer[(s.tail + i) % s.size]],
                    !.size = new_size, !.head = 0, !.tail = 0,
                    !.count = new_size], Ok)
       ELSE ResizeBody(s, new_size)

\* resize(new_size): Err on 0, else the elements move to a new Vec of
\* length new_size; size = new_size, head = count, tail = 0.
resize(s, new_size) ==
  IF new_size = 0 THEN Done(s, Err) ELSE ResizeBody(s, new_size)

\* contains(item): some slot of the Vec, any slot, holds Some(item).
contains(s, item) ==
  Done(s, \E j \in DOMAIN s.buffer : s.buffer[j] = Some(item))

\* The values of the Some slots among the first n slots, in slot order.
RECURSIVE IterUpTo(_, _)
IterUpTo(s, n) ==
  IF n = 0
  THEN <<>>
  ELSE IF s.buffer[n - 1] = None
       THEN IterUpTo(s, n - 1)
       ELSE IterUpTo(s, n - 1) \o s.buffer[n - 1]

\* iter(): buffer.iter().filter_map(|x| x.as_ref()), run to its end.
iter(s) == Done(s, IterUpTo(s, Cardinality(DOMAIN s.buffer)))

\* The elements held, oldest first: the count slots from tail on, as the
\* loops of resize and shrink_to_fit read them.
Contents(s) == [i \in 1..s.count |-> s.buffer[(s.tail + (i - 1)) % s.size]]

\* The results of calling pop until the buffer is empty.
RECURSIVE PopAll(_)
PopAll(s) ==
  IF is_empty(s)
  THEN [rets |-> <<>>, panicked |-> FALSE]
  ELSE LET r == pop(s)
       IN IF r.panicked
          THEN [rets |-> <<>>, panicked |-> TRUE]
          ELSE [rets |-> <<r.ret>> \o PopAll(r.s).rets,
                panicked |-> PopAll(r.s).panicked]

-----------------------------------------------------------------------------
\* The record of the pushes and pops that directly follow new.

Forget == phase' = "off" /\ pushed' = <<>> /\ popped' = <<>>

NotePush(item) ==
  IF phase = "push" /\ Len(pushed) < size
  THEN phase' = "push" /\ pushed' = Append(pushed, item) /\ popped' = popped
  ELSE Forget

NotePop(r) ==
  IF phase \in {"push", "pop"} /\ Len(popped) <= Len(pushed)
  THEN phase' = "pop" /\ pushed' = pushed /\ popped' = Append(popped, r)
  ELSE Forget

\* The items pushed and not yet evicted (a push at capacity drops the
\* oldest), popped or cleared.
QueuePush(q, cap, item) ==
  IF Len(q) >= cap THEN Tail(q) \o <<item>> ELSE Append(q, item)

QueuePop(q) == IF q = <<>> THEN q ELSE Tail(q)

Keep == queue' = queue /\ qprev' = queue

\* A call: the fields, the returned value and the panic it leaves.
Call(op, a, r) ==
  /\ ~panicked
  /\ buffer' = r.s.buffer
  /\ size' = r.s.size
  /\ head' = r.s.head
  /\ tail' = r.s.tail
  /\ count' = r.s.count
  /\ panicked' = r.panicked
  /\ ret' = r.ret
  /\ lastOp' = op
  /\ arg' = a
  /\ prev' = Self

\* The state new(n) leaves.
Construct(n) ==
  /\ buffer = New(n).s.buffer
  /\ size = New(n).s.size
  /\ head = New(n).s.head
  /\ tail = New(n).s.tail
  /\ count = New(n).s.count
  /\ panicked = New(n).panicked
  /\ ret = None
  /\ lastOp = "new"
  /\ arg = n
  /\ prev = New(n).s
  /\ phase = "push"
  /\ pushed = <<>>
  /\ popped = <<>>
  /\ queue = <<>>
  /\ qprev = <<>>

Init == \E n \in 1..MaxCap : Construct(n)

\* new called with 0 as well.
InitAny == \E n \in 0..MaxCap : Construct(n)

Push ==
  \E item \in Values :
    /\ Call("push", item, push(Self, item))
    /\ NotePush(item)
    /\ queue' = IF push(Self, item).panicked
                THEN queue
                ELSE QueuePush(queue, capacity(Self), item)
    /\ qprev' = queue

Pop ==
  /\ Call("pop", 0, pop(Self))
  /\ NotePop(pop(Self).ret)
  /\ queue' = IF pop(Self).panicked THEN queue ELSE QueuePop(queue)
  /\ qprev' = queue

Peek == Call("peek", 0, peek(Self)) /\ Forget /\ Keep

Clear == Call("clear", 0, clear(Self)) /\ Forget /\ queue' = <<>> /\ qprev' = queue

ShrinkToFit == Call("shrink_to_fit", 0, shrink_to_fit(Self)) /\ Forget /\ Keep

Resize(n) == Call("resize", n, resize(Self, n)) /\ Forget /\ Keep

Contains == \E item \in Values : Call("contains", item, contains(Self, item)) /\ Forget /\ Keep

Iter == Call("iter", 0, iter(Self)) /\ Forget /\ Keep

\* Every method, every argument.
Next ==
  \/ Push
  \/ Pop
  \/ Peek
  \/ Clear
  \/ ShrinkToFit
  \/ \E n \in 0..MaxCap : Resize(n)
  \/ Contains
  \/ Iter

Spec == Init /\ [][Next]_vars

\* Every method, every argument, after new with any argument.
SpecNew == InitAny /\ [][Next]_vars

\* push, pop, peek and clear only.
NextCore ==
  \/ Push
  \/ Pop
  \/ Peek
  \/ Clear

SpecCore == Init /\ [][NextCore]_vars

\* Every method, resize only with new_size >= len().
NextFit ==
  \/ Push
  \/ Pop
  \/ Peek
  \/ Clear
  \/ ShrinkToFit
  \/ \E n \in 0..MaxCap : n >= count /\ Resize(n)
  \/ Contains
  \/ Iter

SpecFit == Init /\ [][NextFit]_vars

-----------------------------------------------------------------------------
\* C1: on a new buffer of capacity C, after k <= C pushes the next k pops
\* return the pushed items in the order pushed, and one more pop returns None.
FifoOrder ==
  phase \in {"push", "pop"} =>
    /\ ~panicked
    /\ Len(pushed) <= size
    /\ \A i \in 1..Len(popped) :
         popped[i] = IF i <= Len(pushed) THEN Some(pushed[i]) ELSE None

\* C1 witness: a capacity of at least 2 filled, popped empty and popped once
\* more.
FifoOrderWitness ==
  /\ phase = "pop"
  /\ size >= 2
  /\ Len(pushed) = size
  /\ Len(popped) = Len(pushed) + 1
  /\ pushed[1] # pushed[2]

\* C2: with push, pop and clear only, a push of x into a full buffer of
\* capacity C leaves len() = C and the old contents without their first
\* element followed by x; the next pop returns the old second element (x
\* itself when C = 1).
EvictsOldest ==
  (lastOp = "push" /\ is_full(prev)) =>
    /\ ~panicked
    /\ size = prev.size
    /\ len(Self) = prev.size
    /\ Contents(Self) = Tail(Contents(prev)) \o <<Some(arg)>>
    /\ ~pop(Self).panicked
    /\ pop(Self).ret = IF prev.size >= 2 THEN Contents(prev)[2] ELSE Some(arg)

\* C2 witness: a push into a full, wrapped buffer of capacity at least 2 whose
\* two oldest elements differ.
EvictsOldestWitness ==
  /\ lastOp = "push"
  /\ is_full(prev)
  /\ prev.size >= 2
  /\ prev.tail > 0
  /\ Contents(prev)[1] # Contents(prev)[2]
  /\ ~panicked

\* C3: with resize called only with new_size >= len(), a push on a buffer of
\* capacity >= 1 does not panic and leaves its item as the newest element.
PushNeverPanics ==
  (lastOp = "push" /\ capacity(prev) >= 1) =>
    /\ ~panicked
    /\ len(Self) >= 1
    /\ Contents(Self)[len(Self)] = Some(arg)

\* C4: capacity() >= 1 in every state, so is_empty() and is_full() are never
\* both true.
CapacityPositive ==
  /\ capacity(Self) >= 1
  /\ ~(is_empty(Self) /\ is_full(Self))

\* C5: with resize called only with new_size >= len(), head and tail are
\* always indices of a slot: 0 <= head < size and 0 <= tail < size.
CursorsInRange ==
  /\ head \in 0..(size - 1)
  /\ tail \in 0..(size - 1)

\* C6: 0 <= len() <= capacity() in every state; is_full() is len() =
\* capacity() and is_empty() is len() = 0.
LenWithinCapacity ==
  /\ 0 <= len(Self)
  /\ len(Self) <= capacity(Self)
  /\ is_full(Self) <=> (len(Self) = capacity(Self))
  /\ is_empty(Self) <=> (len(Self) = 0)

\* C6 witness: a push into a full buffer left it full.
LenWithinCapacityWitness ==
  /\ lastOp = "push"
  /\ ~panicked
  /\ is_full(prev)
  /\ is_full(Self)
  /\ size >= 2

\* C7 as claimed: resize(n) with n >= len() returns Ok, and popping every
\* element afterwards gives what popping every element before would have.
ResizeFitSucceeds ==
  (lastOp = "resize" /\ arg >= len(prev)) =>
    /\ ~panicked
    /\ ret = Ok
    /\ PopAll(Self) = PopAll(prev)

\* C7 amended: resize(n) with n >= len() and n >= 1 returns Ok, and popping
\* every element afterwards gives what popping every element before would
\* have.
ResizePreservesContents ==
  (lastOp = "resize" /\ arg >= len(prev) /\ arg >= 1) =>
    /\ ~panicked
    /\ ret = Ok
    /\ ~PopAll(prev).panicked
    /\ PopAll(Self) = PopAll(prev)

\* C7 witness: a resize to a larger capacity of a wrapped buffer (head <=
\* tail) that held two different elements.
ResizePreservesContentsWitness ==
  /\ lastOp = "resize"
  /\ ret = Ok
  /\ len(prev) >= 2
  /\ prev.tail > 0
  /\ prev.head <= prev.tail
  /\ arg > len(prev)
  /\ Contents(prev)[1] # Contents(prev)[2]

\* C8: resize(0) returns Err without a panic and leaves buffer, size, head,
\* tail and count as they were.
ResizeZeroRejected ==
  (lastOp = "resize" /\ arg = 0) =>
    /\ ~panicked
    /\ ret = Err
    /\ Self = prev

\* C8 witness: resize(0) called on a buffer that holds an element.
ResizeZeroRejectedWitness ==
  /\ lastOp = "resize"
  /\ arg = 0
  /\ len(prev) >= 1
  /\ ret = Err

\* C9: shrink_to_fit leaves what resize(count) leaves whenever count < size
\* (the empty buffer included) and changes nothing when count = size;
\* afterwards capacity() = len().
ShrinkIsResizeToCount ==
  lastOp = "shrink_to_fit" =>
    /\ ~panicked
    /\ IF prev.count < prev.size
       THEN /\ ~resize(prev, prev.count).panicked
            /\ Self = resize(prev, prev.count).s
       ELSE Self = prev
    /\ capacity(Self) = len(Self)

\* C10: clear leaves every slot None, head = tail = 0, count = 0 and the
\* capacity as it was; is_empty() is then true and pop() returns None.
ClearEmpties ==
  lastOp = "clear" =>
    /\ ~panicked
    /\ buffer = NoneVec(prev.size)
    /\ head = 0
    /\ tail = 0
    /\ count = 0
    /\ size = prev.size
    /\ is_empty(Self)
    /\ ~pop(Self).panicked
    /\ pop(Self).ret = None
    /\ pop(Self).s = Self

\* C10 witness: clear called on a buffer that held two elements, head and
\* tail both moved on.
ClearEmptiesWitness ==
  /\ lastOp = "clear"
  /\ len(prev) >= 2
  /\ prev.head > 0
  /\ prev.tail > 0

-----------------------------------------------------------------------------
\* How often v occurs in the sequence q.
Occ(q, v) == Cardinality({i \in DOMAIN q : q[i] = v})

\* C11: with resize called only with new_size >= len(), contains(x) is true
\* of every item x pushed and not yet evicted, popped or cleared.
StillContained ==
  ~panicked => \A i \in 1..Len(queue) : contains(Self, queue[i]).ret

\* C11 witness: two different items are held after a shrink_to_fit or a
\* resize of a buffer whose tail had moved on.
StillContainedWitness ==
  /\ ~panicked
  /\ lastOp \in {"shrink_to_fit", "resize"}
  /\ prev.tail > 0
  /\ size # prev.size
  /\ Len(queue) >= 2
  /\ queue[1] # queue[2]

\* C12: pop on an empty buffer returns None and changes no field; pop on a
\* non-empty buffer returns the oldest element, moves tail on by one modulo
\* the capacity and takes one from count.
PopContract ==
  lastOp = "pop" =>
    /\ ~panicked
    /\ IF is_empty(prev)
       THEN /\ ret = None
            /\ Self = prev
       ELSE /\ ret = Contents(prev)[1]
            /\ qprev # <<>>
            /\ ret = Some(Head(qprev))
            /\ tail = (prev.tail + 1) % prev.size
            /\ count = prev.count - 1
            /\ size = prev.size
            /\ head = prev.head

\* C12 witness: a pop of one of several elements that wraps tail to 0.
PopContractWitness ==
  /\ lastOp = "pop"
  /\ len(prev) >= 2
  /\ prev.size >= 3
  /\ prev.tail = prev.size - 1
  /\ tail = 0

\* C13: peek changes no field and returns what the next pop returns: the
\* oldest element, None on an empty buffer.
PeekIsNextPop ==
  lastOp = "peek" =>
    /\ ~panicked
    /\ Self = prev
    /\ ~pop(Self).panicked
    /\ ret = pop(Self).ret
    /\ ret = IF is_empty(Self) THEN None ELSE Some(Head(queue))

\* C13 witness: a peek at a buffer whose oldest element is not in slot 0 and
\* differs from the one in slot 0.
PeekIsNextPopWitness ==
  /\ lastOp = "peek"
  /\ len(Self) >= 2
  /\ tail > 0
  /\ buffer[0] # None
  /\ buffer[0] # buffer[tail]

\* C14: the iterator yields len() items, each value as often as it is held
\* in the count slots from tail on (in any order), which are the items pushed
\* and not yet evicted, popped or cleared.
IterYieldsHeld ==
  ~panicked =>
    /\ Len(iter(Self).ret) = len(Self)
    /\ \A v \in Values :
         /\ Occ(iter(Self).ret, v) = Occ(Contents(Self), Some(v))
         /\ Occ(iter(Self).ret, v) = Occ(queue, v)

\* C14 witness: the iterator ran on a wrapped buffer from which an element
\* was removed, and yielded the elements in another order than oldest first.
IterYieldsHeldWitness ==
  /\ lastOp = "iter"
  /\ len(Self) >= 2
  /\ len(Self) < capacity(Self)
  /\ head <= tail
  /\ ret # queue

\* C15: resize(n) with n >= len() and n >= 1 leaves size = n, tail = 0,
\* head = count, count as it was, the elements oldest first in slots
\* 0..count-1 and None in slots count..n-1.
ResizeLayout ==
  (lastOp = "resize" /\ arg >= len(prev) /\ arg >= 1) =>
    /\ ~panicked
    /\ size = arg
    /\ tail = 0
    /\ head = count
    /\ count = prev.count
    /\ DOMAIN buffer = 0..(arg - 1)
    /\ \A i \in 0..(arg - 1) :
         buffer[i] = IF i < count THEN Some(qprev[i + 1]) ELSE None
    /\ \A i \in 1..count : Contents(prev)[i] = Some(qprev[i])

\* C15 witness: a resize to a larger capacity of a wrapped buffer that held
\* two different elements.
ResizeLayoutWitness ==
  /\ lastOp = "resize"
  /\ ~panicked
  /\ arg > prev.size
  /\ len(prev) >= 2
  /\ prev.tail > 0
  /\ prev.head <= prev.tail
  /\ qprev[1] # qprev[2]

\* C16: resize(n) with 0 < n < len() panics: it returns neither Ok nor Err,
\* it has taken the elements up to index n out of the old Vec, and it leaves
\* size and count as they were, so len() <= capacity() still.
ResizeBelowLenPanics ==
  (lastOp = "resize" /\ 0 < arg /\ arg < len(prev)) =>
    /\ panicked
    /\ ret = None
    /\ buffer = Taken(prev, arg + 1)
    /\ size = prev.size
    /\ head = prev.head
    /\ tail = prev.tail
    /\ count = prev.count
    /\ len(Self) <= capacity(Self)

\* C16 witness: resize(2) on a buffer that holds at least three elements.
ResizeBelowLenPanicsWitness ==
  /\ lastOp = "resize"
  /\ arg = 2
  /\ len(prev) >= 3
  /\ panicked

\* C17: the count slots (tail + i) % size, 0 <= i < count, each hold a
\* value, and read in that order they are the items held, oldest first.
WindowIsQueue ==
  ~panicked =>
    /\ len(Self) = Len(queue)
    /\ \A i \in 1..len(Self) :
         /\ Contents(Self)[i] # None
         /\ Contents(Self)[i] = Some(queue[i])

\* C17 witness: a full buffer whose window wraps (tail > 0) and holds two
\* different values.
WindowIsQueueWitness ==
  /\ ~panicked
  /\ is_full(Self)
  /\ size >= 3
  /\ tail > 0
  /\ queue[1] # queue[Len(queue)]

\* C18: new(0) panics and leaves no buffer to call anything on; new(c) with
\* c >= 1 leaves size = c, c slots all None, head = tail = 0 and count = 0.
NewContract ==
  lastOp = "new" =>
    IF arg = 0
    THEN /\ panicked
         /\ ~ENABLED Next
    ELSE /\ ~panicked
         /\ size = arg
         /\ buffer = NoneVec(arg)
         /\ DOMAIN buffer = 0..(arg - 1)
         /\ head = 0
         /\ tail = 0
         /\ count = 0

\* C18 witness: new was called with 0.
NewContractWitness ==
  /\ lastOp = "new"
  /\ arg = 0
  /\ panicked

\* C19: every slot outside the count slots (tail + i) % size is None, so
\* contains(x) is true exactly of the items pushed and not yet evicted,
\* popped or cleared.
NoStaleValues ==
  ~panicked =>
    /\ \A j \in DOMAIN buffer :
         (~\E i \in 0..(count - 1) : j = (tail + i) % size) => buffer[j] = None
    /\ \A x \in Values :
         contains(Self, x).ret <=> (\E i \in 1..Len(queue) : queue[i] = x)

\* C19 witness: a pop returned a value that is held no more while another
\* element is, and contains is false of it.
NoStaleValuesWitness ==
  /\ lastOp = "pop"
  /\ ~panicked
  /\ ret # None
  /\ len(Self) >= 1
  /\ ~contains(Self, ret[1]).ret

\* C20: with push, pop, peek and clear only, nothing panics, len() is the
\* length of the queue of items pushed and not yet evicted (at capacity),
\* popped or cleared, every pop and peek returns the front of that queue
\* (None when it is empty), and head = (tail + count) % size.
RefinesQueue ==
  /\ ~panicked
  /\ len(Self) = Len(queue)
  /\ Len(queue) <= capacity(Self)
  /\ head = (tail + count) % size
  /\ lastOp \in {"pop", "peek"} =>
       ret = IF qprev = <<>> THEN None ELSE Some(Head(qprev))

\* C20 witness: a pop from a full buffer whose cursors have wrapped and met
\* away from slot 0, after an eviction.
RefinesQueueWitness ==
  /\ lastOp = "pop"
  /\ is_full(prev)
  /\ prev.size >= 3
  /\ prev.tail > 0
  /\ prev.head = prev.tail
  /\ qprev[1] # qprev[2]

====
